---------------------------- MODULE Spec2Model ----------------------------
(***************************************************************************)
(* Chatty: the streaming chat-completion path of src/app.py                *)
(* (chat_process) and of the provider generator of                         *)
(* src/Providers/mistral.py.                                               *)
(*                                                                         *)
(* A call of chat_process creates a Python generator.  Nothing of its body *)
(* runs until the consumer pulls (next()); the body then runs up to the    *)
(* next yield.  Each generation g has its own position pc[g]:              *)
(*   uncalled        chat_process was not called for g                     *)
(*   new             generator object created, body not started            *)
(*   init            body started, before line 33                          *)
(*   loop            in the history loop of lines 38-46, at turn i[g]      *)
(*   match           at the match statement of line 55                     *)
(*   iter            in the provider's for loop, waiting for a chunk       *)
(*   yield_provider  suspended at the provider's yield                     *)
(*   yield_fallback  suspended at the yield "" of line 75                  *)
(*   done            the generator returned (StopIteration)                *)
(*   raised          an exception left the generator                       *)
(*   closed          the consumer closed the generator                     *)
(*                                                                         *)
(* Python values are tagged records; response strings are sequences of     *)
(* characters, so that concatenation, prefix and length are computed.      *)
(*                                                                         *)
(* app.py imports zephyr_chat from Providers/zephyr.py, which is not among *)
(* the source files, and mistral_chat from Providers/mistral.py, whose     *)
(* only generator is defined under the name zephyr_chat.  That generator   *)
(* is modelled as the strategy of the "Mistral-7B-Instruct-v0.2" branch    *)
(* (it calls text_generation and reads chunk.token.text, which is what the *)
(* options of that branch ask for); the strategy of the "zephyr-7b-beta"   *)
(* branch is modelled from the specification.                              *)
(***************************************************************************)
EXTENDS Naturals, Sequences, FiniteSets

VARIABLES
    args,       \* args[g]: the arguments chat_process was called with
    pc,         \* pc[g]: position of generation g
    i,          \* i[g]: index of the history turn the loop is at
    messages,   \* messages[g]: the local list `messages` of chat_process
    requests,   \* requests[g]: the backend requests issued for g, in order
    handle,     \* handle[g]: the backend stream handle: none, open, released
    received,   \* received[g]: the fragments the backend stream delivered
    failed,     \* failed[g]: the backend stream raised
    response,   \* response[g]: the local accumulator `response`
    produced,   \* produced[g]: the strings handed to the consumer, in order
    result      \* result[g]: outcome of the consumer's last next()

vars == <<args, pc, i, messages, requests, handle, received, failed,
          response, produced, result>>

(***************************************************************************)
(* Bounds                                                                  *)
(***************************************************************************)
MaxHistory == 2
MaxFragments == 2

Gens == {"g1", "g2"}

(***************************************************************************)
(* Python values                                                           *)
(***************************************************************************)
Str(s) == [type |-> "str", val |-> s]
None == [type |-> "NoneType", val |-> ""]
Int(s) == [type |-> "int", val |-> s]

ZEPHYR == "zephyr-7b-beta"
MISTRAL == "Mistral-7B-Instruct-v0.2"

\* bool(v) as Python computes it for the values above
Truthy(v) ==
    CASE v.type = "str" -> v.val /= ""
      [] v.type = "NoneType" -> FALSE
      [] OTHER -> v.val /= "0"

(***************************************************************************)
(* Inputs                                                                  *)
(***************************************************************************)
UserTexts == {None, Str("hi")}
AssistantTexts == {Str(""), Str("hello!")}
Turns == UserTexts \X AssistantTexts
Histories == UNION {[1..n -> Turns] : n \in 0..MaxHistory}
Prompts == {Str("how are you?"), Int("42")}
SystemMessages == {Str(""), Str("be terse")}
Models == {ZEPHYR, MISTRAL, "gpt-2"}

\* token texts the backend stream can deliver (chunk.token.text)
Fragments == {<<>>, <<"a">>, <<"b">>}

MakeArgs(p, h, s, m) ==
    [prompt |-> p, history |-> h, system_message |-> s, model |-> m,
     max_tokens |-> 1024, temperature |-> "0.7", top_p |-> "0.9",
     repetition_penalty |-> "1.0"]

AllArgs == {MakeArgs(p, h, s, m) :
               p \in Prompts, h \in Histories, s \in SystemMessages, m \in Models}

\* the arguments of the interleaved runs: the scenario of the specification
TwoArgs == {MakeArgs(Str("how are you?"), <<<<Str("hi"), Str("hello!")>>>>,
                     Str("be terse"), m) : m \in Models}

NoArgs == MakeArgs(Str(""), <<>>, Str(""), "")

(***************************************************************************)
(* chat_process: the message list                                          *)
(***************************************************************************)
Message(role, content) == [role |-> role, content |-> content]

\* app.py 33-35
SystemMessage(a) == <<Message("system", a.system_message)>>

\* a loop that forgets the two truthiness tests of lines 39 and 43
TurnMessagesUnfiltered(val) ==
    <<Message("user", val[1]), Message("assistant", val[2])>>

\* app.py 39-46: what one turn of the history appends
TurnMessages(val) ==
    (IF Truthy(val[1]) THEN <<Message("user", val[1])>> ELSE <<>>)
    \o (IF Truthy(val[2]) THEN <<Message("assistant", val[2])>> ELSE <<>>)

\* app.py 50-52
PromptMessage(a) == <<Message("user", a.prompt)>>

(***************************************************************************)
(* chat_process: the options of each strategy                              *)
(***************************************************************************)
\* app.py 57-62
ZephyrKwargs(a) ==
    [max_tokens |-> a.max_tokens, temperature |-> a.temperature,
     top_p |-> a.top_p, stream |-> TRUE]

\* a branch that forwards the caller's options as they came
MistralKwargsVerbatim(a) ==
    [max_tokens |-> a.max_tokens, temperature |-> a.temperature,
     top_p |-> a.top_p, repetition_penalty |-> a.repetition_penalty,
     stream |-> TRUE]

\* app.py 66-71
MistralKwargs(a) ==
    [max_new_tokens |-> a.max_tokens, stream |-> TRUE, details |-> TRUE,
     return_full_text |-> FALSE]

(***************************************************************************)
(* The provider generators                                                 *)
(***************************************************************************)
\* response = chunk.token.text: the delta is yielded, not the running string
AccumulateReplace(resp, text) == text

\* response = chunk.token.text + response
AccumulatePrepend(resp, text) == text \o resp

\* mistral.py 18: response += chunk.token.text
Accumulate(resp, text) == resp \o text

\* Providers/zephyr.py: the accumulation of the specification, section 4.2
ZephyrAccumulate(resp, text) == resp \o text

\* the strategy a request was handed to
StrategyOf(g) == IF requests[g] = <<>> THEN "none" ELSE requests[g][1].strategy

\* Providers/zephyr.py: the specification (section 5) demands that the
\* stream handle is released on every exit path
ZephyrHandleAfterExit == {"released"}

\* mistral.py 13-19 has no try/finally, no `with` and no close(): when the
\* generator is left by an exception or by close() the stream object is only
\* dropped, and whether that releases the connection is up to the runtime's
\* garbage collection.
HandleAfterExit(g) ==
    IF handle[g] /= "open" THEN {handle[g]}
    ELSE IF StrategyOf(g) = "mistral_chat" THEN {"open", "released"}
    ELSE ZephyrHandleAfterExit

(***************************************************************************)
(* Initial states                                                          *)
(***************************************************************************)
InitCalls(called, argset) ==
    /\ args \in [Gens -> argset \cup {NoArgs}]
    /\ \A g \in Gens : (args[g] = NoArgs) <=> (g \notin called)
    /\ pc = [g \in Gens |-> IF g \in called THEN "new" ELSE "uncalled"]
    /\ i = [g \in Gens |-> 1]
    /\ messages = [g \in Gens |-> <<>>]
    /\ requests = [g \in Gens |-> <<>>]
    /\ handle = [g \in Gens |-> "none"]
    /\ received = [g \in Gens |-> <<>>]
    /\ failed = [g \in Gens |-> FALSE]
    /\ response = [g \in Gens |-> <<>>]
    /\ produced = [g \in Gens |-> <<>>]
    /\ result = [g \in Gens |-> "none"]

\* one call of chat_process, with any arguments
Init == InitCalls({"g1"}, AllArgs)

\* two calls of chat_process, whose consumers pull in any order
InitTwo == InitCalls(Gens, TwoArgs)

(***************************************************************************)
(* The consumer                                                            *)
(***************************************************************************)
\* next() on a generator that is not finished: the body starts or resumes
Pull(g) ==
    /\ pc[g] \in {"new", "yield_provider", "yield_fallback"}
    /\ pc' = [pc EXCEPT ![g] =
                 CASE pc[g] = "new" -> "init"
                   [] pc[g] = "yield_provider" -> "iter"
                   [] OTHER -> "done"]
    \* app.py 75: after the yield "" the function returns
    /\ result' = [result EXCEPT ![g] =
                     IF pc[g] = "yield_fallback" THEN "StopIteration" ELSE @]
    /\ UNCHANGED <<args, i, messages, requests, handle, received, failed,
                   response, produced>>

\* next() on a finished generator: StopIteration, and nothing else happens
PullFinished(g) ==
    /\ pc[g] \in {"done", "raised", "closed"}
    /\ result' = [result EXCEPT ![g] = "StopIteration"]
    /\ UNCHANGED <<args, pc, i, messages, requests, handle, received, failed,
                   response, produced>>

\* close() on a suspended generator (the consumer stops early)
Close(g) ==
    /\ pc[g] \in {"new", "yield_provider", "yield_fallback"}
    /\ pc' = [pc EXCEPT ![g] = "closed"]
    /\ \E h \in HandleAfterExit(g) : handle' = [handle EXCEPT ![g] = h]
    /\ UNCHANGED <<args, i, messages, requests, received, failed, response,
                   produced, result>>

(***************************************************************************)
(* chat_process                                                            *)
(***************************************************************************)
\* app.py 32-35
InitMessages(g) ==
    /\ pc[g] = "init"
    /\ messages' = [messages EXCEPT ![g] = SystemMessage(args[g])]
    /\ i' = [i EXCEPT ![g] = 1]
    /\ pc' = [pc EXCEPT ![g] = "loop"]
    /\ UNCHANGED <<args, requests, handle, received, failed, response,
                   produced, result>>

\* app.py 38-46: one iteration of the loop
HistoryStep(g) ==
    /\ pc[g] = "loop"
    /\ i[g] <= Len(args[g].history)
    /\ messages' = [messages EXCEPT ![g] = @ \o TurnMessages(args[g].history[i[g]])]
    /\ i' = [i EXCEPT ![g] = @ + 1]
    /\ UNCHANGED <<args, pc, requests, handle, received, failed, response,
                   produced, result>>

\* app.py 49-52: the loop is over, the prompt is appended
AppendPrompt(g) ==
    /\ pc[g] = "loop"
    /\ i[g] > Len(args[g].history)
    /\ messages' = [messages EXCEPT ![g] = @ \o PromptMessage(args[g])]
    /\ pc' = [pc EXCEPT ![g] = "match"]
    /\ UNCHANGED <<args, i, requests, handle, received, failed, response,
                   produced, result>>

\* The start of a provider generator (mistral.py 5-16): the client is built,
\* response is "", and text_generation(messages, **kwargs) issues the request
StartProvider(g, strategy, kwargs) ==
    /\ requests' = [requests EXCEPT ![g] =
                       Append(@, [strategy |-> strategy,
                                  messages |-> messages[g],
                                  kwargs |-> kwargs])]
    /\ handle' = [handle EXCEPT ![g] = "open"]
    /\ response' = [response EXCEPT ![g] = <<>>]
    /\ pc' = [pc EXCEPT ![g] = "iter"]
    /\ UNCHANGED <<args, i, messages, received, failed, produced, result>>

\* app.py 56-63
MatchZephyr(g) ==
    /\ pc[g] = "match"
    /\ args[g].model = ZEPHYR
    /\ StartProvider(g, "zephyr_chat", ZephyrKwargs(args[g]))

\* app.py 65-72
MatchMistral(g) ==
    /\ pc[g] = "match"
    /\ args[g].model = MISTRAL
    /\ StartProvider(g, "mistral_chat", MistralKwargs(args[g]))

\* a default case that returns without yielding
MatchDefaultSilent(g) ==
    /\ pc[g] = "match"
    /\ args[g].model \notin {ZEPHYR, MISTRAL}
    /\ result' = [result EXCEPT ![g] = "StopIteration"]
    /\ pc' = [pc EXCEPT ![g] = "done"]
    /\ UNCHANGED <<args, i, messages, requests, handle, received, failed,
                   response, produced>>

\* app.py 74-75
MatchDefault(g) ==
    /\ pc[g] = "match"
    /\ args[g].model \notin {ZEPHYR, MISTRAL}
    /\ produced' = [produced EXCEPT ![g] = Append(@, <<>>)]
    /\ result' = [result EXCEPT ![g] = "value"]
    /\ pc' = [pc EXCEPT ![g] = "yield_fallback"]
    /\ UNCHANGED <<args, i, messages, requests, handle, received, failed,
                   response>>

(***************************************************************************)
(* The provider's loop over the backend stream                             *)
(***************************************************************************)
\* a provider whose accumulator is one module-level buffer of all generations
StreamChunkSharedBuffer(g, text) ==
    /\ pc[g] = "iter"
    /\ Len(received[g]) < MaxFragments
    /\ received' = [received EXCEPT ![g] = Append(@, text)]
    /\ LET r == Accumulate(response[g], text)
       IN /\ response' = [h \in Gens |-> r]
          /\ produced' = [produced EXCEPT ![g] = Append(@, r)]
    /\ result' = [result EXCEPT ![g] = "value"]
    /\ pc' = [pc EXCEPT ![g] = "yield_provider"]
    /\ UNCHANGED <<args, i, messages, requests, handle, failed>>

\* mistral.py 13-19: the stream delivers a chunk; it is added and yielded
StreamChunk(g, text) ==
    /\ pc[g] = "iter"
    /\ Len(received[g]) < MaxFragments
    /\ received' = [received EXCEPT ![g] = Append(@, text)]
    /\ LET r == IF StrategyOf(g) = "mistral_chat"
                THEN Accumulate(response[g], text)
                ELSE ZephyrAccumulate(response[g], text)
       IN /\ response' = [response EXCEPT ![g] = r]
          /\ produced' = [produced EXCEPT ![g] = Append(@, r)]
    /\ result' = [result EXCEPT ![g] = "value"]
    /\ pc' = [pc EXCEPT ![g] = "yield_provider"]
    /\ UNCHANGED <<args, i, messages, requests, handle, failed>>

\* mistral.py 13: the stream is exhausted; the loop and both generators end.
\* An exhausted stream has given its connection back.
StreamEnd(g) ==
    /\ pc[g] = "iter"
    /\ handle' = [handle EXCEPT ![g] = "released"]
    /\ result' = [result EXCEPT ![g] = "StopIteration"]
    /\ pc' = [pc EXCEPT ![g] = "done"]
    /\ UNCHANGED <<args, i, messages, requests, received, failed, response,
                   produced>>

\* a loop wrapped in try/except that ends the sequence quietly
StreamFailSwallowed(g) ==
    /\ pc[g] = "iter"
    /\ failed' = [failed EXCEPT ![g] = TRUE]
    /\ result' = [result EXCEPT ![g] = "StopIteration"]
    /\ pc' = [pc EXCEPT ![g] = "done"]
    /\ \E h \in HandleAfterExit(g) : handle' = [handle EXCEPT ![g] = h]
    /\ UNCHANGED <<args, i, messages, requests, received, response, produced>>

\* a loop wrapped in a retry: the request is issued again after a failure
StreamFailRetry(g) ==
    /\ pc[g] = "iter"
    /\ failed' = [failed EXCEPT ![g] = TRUE]
    /\ requests' = [requests EXCEPT ![g] = Append(@, @[1])]
    /\ UNCHANGED <<args, pc, i, messages, handle, received, response,
                   produced, result>>

\* mistral.py 13: the stream raises; nothing catches it (no try in
\* mistral.py 13-19 nor in app.py 55-72), so it reaches the consumer
StreamFail(g) ==
    /\ pc[g] = "iter"
    /\ failed' = [failed EXCEPT ![g] = TRUE]
    /\ result' = [result EXCEPT ![g] = "BackendError"]
    /\ pc' = [pc EXCEPT ![g] = "raised"]
    /\ \E h \in HandleAfterExit(g) : handle' = [handle EXCEPT ![g] = h]
    /\ UNCHANGED <<args, i, messages, requests, received, response, produced>>

(***************************************************************************)
(* Specifications                                                          *)
(***************************************************************************)
Next ==
    \E g \in Gens :
        \/ Pull(g)
        \/ PullFinished(g)
        \/ Close(g)
        \/ InitMessages(g)
        \/ HistoryStep(g)
        \/ AppendPrompt(g)
        \/ MatchZephyr(g)
        \/ MatchMistral(g)
        \/ MatchDefault(g)
        \/ \E text \in Fragments : StreamChunk(g, text)
        \/ StreamEnd(g)
        \/ StreamFail(g)

Spec == Init /\ [][Next]_vars

SpecTwo == InitTwo /\ [][Next]_vars

(***************************************************************************)
(* Vocabulary of the properties                                            *)
(***************************************************************************)
Called(g) == pc[g] /= "uncalled"

Recognized(g) == args[g].model \in {ZEPHYR, MISTRAL}

\* the message list is complete: the body is past line 52
Built(g) ==
    \/ pc[g] \in {"match", "iter", "yield_provider", "yield_fallback",
                  "done", "raised"}
    \/ pc[g] = "closed" /\ produced[g] /= <<>>

Finished(g) == pc[g] \in {"done", "raised", "closed"}

IsPrefix(s, t) == Len(s) <= Len(t) /\ SubSeq(t, 1, Len(s)) = s

RECURSIVE Concat(_)
Concat(fs) == IF fs = <<>> THEN <<>> ELSE Head(fs) \o Concat(Tail(fs))

\* what a generation running alone produces from the fragments fs
PrefixesOf(fs) == [k \in 1..Len(fs) |-> Concat(SubSeq(fs, 1, k))]

Present(v) == v /= None /\ v /= Str("")

RECURSIVE HistoryMessages(_)
HistoryMessages(h) ==
    IF h = <<>> THEN <<>>
    ELSE LET u == Head(h)[1]
             a == Head(h)[2]
         IN (IF Present(u) THEN <<[role |-> "user", content |-> u]>> ELSE <<>>)
            \o (IF Present(a) THEN <<[role |-> "assistant", content |-> a]>> ELSE <<>>)
            \o HistoryMessages(Tail(h))

(***************************************************************************)
(* C1: for a recognized model the produced strings are r1..rn with         *)
(* r0 = "" and ri = r(i-1) + fi for the fragments f1..fn the backend       *)
(* delivered: one per fragment, in arrival order, no element for the end   *)
(* of the stream, and the last one is the concatenation of all fragments.  *)
(***************************************************************************)
C1_CumulativePrefixes ==
    \A g \in Gens :
        (Called(g) /\ Recognized(g)) =>
            /\ Len(produced[g]) = Len(received[g])
            /\ \A k \in 1..Len(produced[g]) :
                   produced[g][k] =
                       (IF k = 1 THEN <<>> ELSE produced[g][k - 1]) \o received[g][k]
            /\ produced[g] /= <<>> =>
                   produced[g][Len(produced[g])] = Concat(received[g])

C1_Witness ==
    \E g \in Gens :
        /\ args[g].model = MISTRAL
        /\ pc[g] = "done"
        /\ received[g] = << <<"a">>, <<"b">> >>
        /\ produced[g] = << <<"a">>, <<"a", "b">> >>

(***************************************************************************)
(* C2: the message list chat_process builds is one system message with the *)
(* system_message (also when it is empty), then per history turn, in       *)
(* order, a user message if user_text is truthy and an assistant message   *)
(* if assistant_text is truthy, then one user message with the prompt; so  *)
(* the first element is the only system message and the last element is    *)
(* the user message carrying the prompt.                                   *)
(***************************************************************************)
C2_MessageList ==
    \A g \in Gens :
        Built(g) =>
            LET ms == messages[g]
                n == Len(ms)
            IN /\ ms = <<[role |-> "system", content |-> args[g].system_message]>>
                       \o HistoryMessages(args[g].history)
                       \o <<[role |-> "user", content |-> args[g].prompt]>>
               /\ ms[1].role = "system"
               /\ \A k \in 2..n : ms[k].role /= "system"
               /\ ms[n] = [role |-> "user", content |-> args[g].prompt]

C2_Witness ==
    \E g \in Gens :
        /\ Built(g)
        /\ args[g].system_message = Str("")
        /\ args[g].history = << <<None, Str("")>>, <<Str("hi"), Str("hello!")>> >>
        /\ Len(messages[g]) = 4
        /\ messages[g][2] = [role |-> "user", content |-> Str("hi")]
        /\ messages[g][3] = [role |-> "assistant", content |-> Str("hello!")]

(***************************************************************************)
(* C3: with a model name that is none of the two selectors, chat_process   *)
(* produces exactly one element, the empty string, then ends without an    *)
(* error and without any backend request.                                  *)
(***************************************************************************)
C3_UnknownModel ==
    \A g \in Gens :
        (Called(g) /\ ~Recognized(g)) =>
            /\ requests[g] = <<>>
            /\ handle[g] = "none"
            /\ pc[g] /= "raised"
            /\ result[g] /= "BackendError"
            /\ produced[g] \in {<<>>, << <<>> >>}
            /\ pc[g] \in {"yield_fallback", "done"} => produced[g] = << <<>> >>
            /\ pc[g] = "done" => result[g] = "StopIteration"

C3_Witness ==
    \E g \in Gens :
        /\ args[g].model = "gpt-2"
        /\ pc[g] = "done"
        /\ produced[g] = << <<>> >>
        /\ result[g] = "StopIteration"

(***************************************************************************)
(* C4: when the backend stream fails after k fragments, the k cumulative   *)
(* prefixes were produced, the failure reaches the caller as an error and  *)
(* not as a normal end, and no element is produced afterwards.             *)
(***************************************************************************)
C4_FailureSurfaces ==
    \A g \in Gens :
        failed[g] =>
            /\ pc[g] = "raised"
            /\ result[g] \in {"BackendError", "StopIteration"}
            /\ produced[g] = PrefixesOf(received[g])
            /\ Len(requests[g]) = 1

C4_Witness ==
    \E g \in Gens :
        /\ failed[g]
        /\ pc[g] = "raised"
        /\ received[g] = << <<"a">> >>
        /\ produced[g] = << <<"a">> >>
        /\ result[g] = "StopIteration"

(***************************************************************************)
(* C5 as stated: every produced string has the previously produced string  *)
(* as a prefix and is strictly longer, whatever the fragment.              *)
(***************************************************************************)
C5_StrictExtension ==
    \A g \in Gens :
        \A k \in 2..Len(produced[g]) :
            /\ IsPrefix(produced[g][k - 1], produced[g][k])
            /\ Len(produced[g][k]) > Len(produced[g][k - 1])

(***************************************************************************)
(* C5 amended: every produced string has the previously produced string    *)
(* as a prefix and is at least as long; it is strictly longer exactly when *)
(* the fragment's text is not empty.                                       *)
(***************************************************************************)
C5_Extension ==
    \A g \in Gens :
        \A k \in 2..Len(produced[g]) :
            /\ IsPrefix(produced[g][k - 1], produced[g][k])
            /\ Len(produced[g][k]) >= Len(produced[g][k - 1])
            /\ Recognized(g) =>
                   ((Len(produced[g][k]) > Len(produced[g][k - 1]))
                        <=> (received[g][k] /= <<>>))

C5_Witness ==
    \E g \in Gens :
        /\ args[g].model = MISTRAL
        /\ Len(produced[g]) >= 2
        /\ received[g][2] = <<>>
        /\ produced[g][1] = <<"a">>
        /\ produced[g][2] = produced[g][1]

(***************************************************************************)
(* C6: when the prompt is not a string, chat_process fails with            *)
(* InvalidInput before any backend request is issued and before any        *)
(* element is produced.                                                    *)
(***************************************************************************)
C6_InvalidInput ==
    \A g \in Gens :
        (Called(g) /\ args[g].prompt.type /= "str") =>
            /\ requests[g] = <<>>
            /\ produced[g] = <<>>

(***************************************************************************)
(* C7: two generations whose consumers pull in any order do not affect     *)
(* each other: each one's accumulator, output and request are those of a   *)
(* run of its own arguments and its own fragment stream alone.             *)
(***************************************************************************)
C7_Isolation ==
    \A g \in Gens :
        /\ response[g] = Concat(received[g])
        /\ Recognized(g) => produced[g] = PrefixesOf(received[g])
        /\ \A k \in 1..Len(requests[g]) :
               requests[g][k].messages =
                   <<[role |-> "system", content |-> args[g].system_message]>>
                   \o HistoryMessages(args[g].history)
                   \o <<[role |-> "user", content |-> args[g].prompt]>>

C7_Witness ==
    /\ args["g1"].model = MISTRAL
    /\ args["g2"].model = MISTRAL
    /\ pc["g1"] = "yield_provider"
    /\ pc["g2"] = "iter"
    /\ received["g1"] = << <<"a">>, <<"b">> >>
    /\ received["g2"] = << <<"b">> >>
    /\ produced["g1"] = << <<"a">>, <<"a", "b">> >>
    /\ produced["g2"] = << <<"b">> >>

(***************************************************************************)
(* C8: on every exit path of a generation with a recognized model (the     *)
(* stream ends, the stream raises, the consumer closes early) the backend  *)
(* stream handle opened for it is released.                                *)
(***************************************************************************)
C8_HandleReleased ==
    \A g \in Gens :
        (Recognized(g) /\ Finished(g)) => handle[g] /= "open"

(***************************************************************************)
(* C9: the options of a backend request are those of its selector's        *)
(* strategy and never the caller's as they came: zephyr-7b-beta gets       *)
(* max_tokens, temperature, top_p and stream; Mistral-7B-Instruct-v0.2     *)
(* gets max_new_tokens = max_tokens, stream, details and                   *)
(* return_full_text = false; stream is true and repetition_penalty absent  *)
(* in every request, and each selector reaches one strategy.               *)
(***************************************************************************)
C9_OptionsRemapped ==
    \A g \in Gens :
        \A k \in 1..Len(requests[g]) :
            LET r == requests[g][k]
                kw == r.kwargs
            IN /\ "stream" \in DOMAIN kw
               /\ kw.stream = TRUE
               /\ "repetition_penalty" \notin DOMAIN kw
               /\ args[g].model \in {ZEPHYR, MISTRAL}
               /\ args[g].model = ZEPHYR =>
                      /\ r.strategy = "zephyr_chat"
                      /\ DOMAIN kw = {"max_tokens", "temperature", "top_p", "stream"}
                      /\ kw.max_tokens = args[g].max_tokens
                      /\ kw.temperature = args[g].temperature
                      /\ kw.top_p = args[g].top_p
               /\ args[g].model = MISTRAL =>
                      /\ r.strategy = "mistral_chat"
                      /\ DOMAIN kw = {"max_new_tokens", "stream", "details",
                                      "return_full_text"}
                      /\ kw.max_new_tokens = args[g].max_tokens
                      /\ kw.details = TRUE
                      /\ kw.return_full_text = FALSE

C9_Witness ==
    \E g \in Gens :
        /\ args[g].model = MISTRAL
        /\ Len(requests[g]) = 1
        /\ requests[g][1].strategy = "mistral_chat"
        /\ requests[g][1].kwargs.max_new_tokens = 1024

(***************************************************************************)
(* C10: for a recognized selector one run of chat_process issues one       *)
(* streaming request: none before the message list is complete, one from   *)
(* the dispatch on, and never a second one, also after a backend failure.  *)
(***************************************************************************)
C10_OneRequest ==
    \A g \in Gens :
        /\ Len(requests[g]) <= 1
        /\ pc[g] \in {"uncalled", "new", "init", "loop", "match"} => requests[g] = <<>>
        /\ requests[g] /= <<>> =>
               /\ Recognized(g)
               /\ Built(g)
               /\ requests[g][1].messages = messages[g]
               /\ messages[g][Len(messages[g])] =
                      [role |-> "user", content |-> args[g].prompt]
        /\ (Recognized(g) /\ pc[g] \in {"iter", "yield_provider", "done", "raised"})
               => Len(requests[g]) = 1

C10_Witness ==
    \E g \in Gens :
        /\ failed[g]
        /\ pc[g] = "raised"
        /\ result[g] = "StopIteration"
        /\ Len(requests[g]) = 1

=============================================================================
